---- MODULE Spec2Model ----
(***************************************************************************)
(* Model of src/src/blockchain.rs: the proof-of-work ledger (App), its     *)
(* block validator, chain validator, fork choice and miner.                *)
(*                                                                         *)
(* Rust Strings are sequences of one-character strings, Vec<T> is a        *)
(* sequence, Vec<u8> is a sequence of naturals below 256.                  *)
(* Functions that can abort return their outcome as a string: "true",      *)
(* "false" or "panic".                                                     *)
(***************************************************************************)
EXTENDS Integers, Sequences, FiniteSets, TLC

\* ---------------------------------------------------------------- bounds
\* Largest value of the block id type (u32 in the source, narrowed here).
U32_MAX == 3
\* Largest value of the nonce type (u64 in the source, narrowed here).
U64_MAX == 7
\* Last wall-clock reading (seconds) the model explores.
MaxTime == 3
\* Longest ledger chain the model explores.
MaxChain == 2
\* Longest second chain the caller builds in the model.
MaxPeer == 2

\* ------------------------------------------------------------- constants
\* const DIFFICULTY: &str = "00";
DIFFICULTY == <<"0", "0">>

\* struct Transaction {}  (serialises to the JSON object {})
Transaction == "{}"

\* String::from("genesis")
GenesisString == <<"g", "e", "n", "e", "s", "i", "s">>

\* ------------------------------------------------------ string encodings
HexDigits == <<"0", "1", "2", "3", "4", "5", "6", "7",
               "8", "9", "a", "b", "c", "d", "e", "f">>

\* hex::encode : two lowercase hexadecimal characters per byte.
hex_encode(bytes) ==
    [i \in 1..(2 * Len(bytes)) |->
        IF i % 2 = 1 THEN HexDigits[(bytes[(i + 1) \div 2] \div 16) + 1]
                     ELSE HexDigits[(bytes[i \div 2] % 16) + 1]]

\* u8::to_string : decimal rendering without leading zeros.
u8_to_string(n) ==
    IF n < 10 THEN <<HexDigits[n + 1]>>
    ELSE IF n < 100 THEN <<HexDigits[(n \div 10) + 1], HexDigits[(n % 10) + 1]>>
    ELSE <<HexDigits[(n \div 100) + 1], HexDigits[((n \div 10) % 10) + 1],
           HexDigits[(n % 10) + 1]>>

RECURSIVE collect_string(_)
\* .collect::<String>() : concatenation of the rendered items.
collect_string(strs) ==
    IF strs = <<>> THEN <<>> ELSE Head(strs) \o collect_string(Tail(strs))

\* ----------------------------------------------------------------- hash
\* The characters that occur in the strings of the model.
CharSet == HexDigits \o <<"g", "n", "s", "i">>

CharCode(c) == CHOOSE i \in 1..Len(CharSet) : CharSet[i] = c

\* serde_json::json!({...}).to_string(): the canonical text that is hashed,
\* as the sequence of its variable parts in serde_json's key order
\* (id, nonce, prev_hash, timestamp, transactions).
json_to_string(id, timestamp, prev_hash, transactions, nonce) ==
    <<id, nonce>> \o [i \in 1..Len(prev_hash) |-> CharCode(prev_hash[i])]
                  \o <<timestamp, Len(transactions)>>

RECURSIVE Absorb(_, _)
Absorb(data, acc) ==
    IF data = <<>> THEN acc
    ELSE Absorb(Tail(data), (acc * 31 + Head(data) + 1) % 65521)

\* Leading digest bytes are drawn from this table.
ByteTable == <<0, 0, 10, 171, 0, 1>>

\* Sha256: abstracted by a deterministic four-byte digest of the hashed text.
\* The two leading bytes are spread over ByteTable so that every outcome of
\* the difficulty tests occurs; the two trailing bytes keep the digest
\* collision-free on the inputs of the model.
Sha256(data) ==
    LET acc == Absorb(data, 2)
    IN  <<ByteTable[((acc \div 7) % 6) + 1], ByteTable[((acc \div 11) % 6) + 1],
          acc % 256, (acc \div 256) % 256>>

calculate_hash(id, timestamp, prev_hash, transactions, nonce) ==
    Sha256(json_to_string(id, timestamp, prev_hash, transactions, nonce))

\* --------------------------------------------------------------- blocks
Block(id, timestamp, header, prev_hash, transactions, nonce) ==
    [id |-> id, timestamp |-> timestamp, header |-> header,
     prev_hash |-> prev_hash, transactions |-> transactions, nonce |-> nonce]

\* genesis_block with the timestamp read from a clock that shows 1.
genesis_block_stamped == Block(0, 1, GenesisString, GenesisString, <<>>, 0)

genesis_block == Block(0, 0, GenesisString, GenesisString, <<>>, 0)

\* hex(Hash(...)) of a block's own content.
HeaderOf(b) ==
    hex_encode(calculate_hash(b.id, b.timestamp, b.prev_hash, b.transactions, b.nonce))

\* ------------------------------------------------------------ validator
\* latest_block.id + 1 on u32: aborts when overflow checks are compiled in,
\* wraps otherwise.
u32_add_overflows(a, b) == a + b > U32_MAX
u32_wrapping_add(a, b) == (a + b) % (U32_MAX + 1)

\* &new_block.header[0..=DIFFICULTY.len()] is in range
slice_in_range(header) == Len(header) >= Len(DIFFICULTY) + 1

\* &new_block.header[0..=DIFFICULTY.len()] != DIFFICULTY  (negated)
header_meets_difficulty(header) ==
    SubSeq(header, 1, Len(DIFFICULTY) + 1) = DIFFICULTY

\* check_block_is_valid without the comparison of the stored header with the
\* recomputed digest.
check_block_is_valid_no_header_rule(overflow_checks, latest_block, new_block) ==
    IF overflow_checks /\ u32_add_overflows(latest_block.id, 1)
    THEN [ret |-> "panic", log |-> "attempt to add with overflow"]
    ELSE IF u32_wrapping_add(latest_block.id, 1) # new_block.id
    THEN [ret |-> "false", log |-> "Invalid block ID!"]
    ELSE IF new_block.timestamp <= latest_block.timestamp
    THEN [ret |-> "false", log |-> "Invalid block timestamp!"]
    ELSE IF new_block.prev_hash # latest_block.header
    THEN [ret |-> "false", log |-> "Previous hash doesn't match!"]
    ELSE IF ~slice_in_range(new_block.header)
    THEN [ret |-> "panic", log |-> "byte index out of range"]
    ELSE IF ~header_meets_difficulty(new_block.header)
    THEN [ret |-> "false", log |-> "Difficulty does not match!"]
    ELSE [ret |-> "true", log |-> ""]

check_block_is_valid(overflow_checks, latest_block, new_block) ==
    IF overflow_checks /\ u32_add_overflows(latest_block.id, 1)
    THEN [ret |-> "panic", log |-> "attempt to add with overflow"]
    ELSE IF u32_wrapping_add(latest_block.id, 1) # new_block.id
    THEN [ret |-> "false", log |-> "Invalid block ID!"]
    ELSE IF new_block.timestamp <= latest_block.timestamp
    THEN [ret |-> "false", log |-> "Invalid block timestamp!"]
    ELSE IF new_block.header # HeaderOf(new_block)
    THEN [ret |-> "false", log |-> "Invalid block header!"]
    ELSE IF new_block.prev_hash # latest_block.header
    THEN [ret |-> "false", log |-> "Previous hash doesn't match!"]
    ELSE IF ~slice_in_range(new_block.header)
    THEN [ret |-> "panic", log |-> "byte index out of range"]
    ELSE IF ~header_meets_difficulty(new_block.header)
    THEN [ret |-> "false", log |-> "Difficulty does not match!"]
    ELSE [ret |-> "true", log |-> ""]

\* One call of the block validator, as check_chain_is_valid makes it.
ValidatorCall(overflow_checks, latest_block, new_block) ==
    [latest_block |-> latest_block, new_block |-> new_block,
     ret |-> check_block_is_valid(overflow_checks, latest_block, new_block).ret]

RECURSIVE chain_loop(_, _, _, _)
\* Iteration i of the for loop (the source's index i is i - 1 here; the
\* iteration i == 0 is skipped by `continue`).
chain_loop(overflow_checks, chain, i, calls) ==
    IF i > Len(chain) THEN [ret |-> "true", calls |-> calls]
    ELSE LET first == chain[i - 1]
             second == chain[i]
             call == ValidatorCall(overflow_checks, second, first)
         IN  IF call.ret = "panic"
             THEN [ret |-> "panic", calls |-> Append(calls, call)]
             ELSE IF call.ret # "true"
             THEN [ret |-> "false", calls |-> Append(calls, call)]
             ELSE chain_loop(overflow_checks, chain, i + 1, Append(calls, call))

\* Returns the outcome and the validator calls made, in order.
check_chain_is_valid(overflow_checks, chain) ==
    chain_loop(overflow_checks, chain, 2, <<>>)

\* ---------------------------------------------------------- fork choice
\* choose_chain with the last branch returning the local chain instead of
\* stopping.
choose_chain_returns_default(overflow_checks, local_chain, new_chain) ==
    LET is_local_valid == check_chain_is_valid(overflow_checks, local_chain)
        is_new_valid == check_chain_is_valid(overflow_checks, new_chain)
        calls == is_local_valid.calls \o is_new_valid.calls
    IN  IF is_local_valid.ret = "panic" \/ is_new_valid.ret = "panic"
        THEN [outcome |-> "panic", chain |-> <<>>, calls |-> calls]
        ELSE IF is_local_valid.ret = "true" /\ is_new_valid.ret = "true"
        THEN [outcome |-> "return",
              chain |-> IF Len(new_chain) <= Len(local_chain)
                        THEN local_chain ELSE new_chain,
              calls |-> calls]
        ELSE IF is_local_valid.ret # "true" /\ is_new_valid.ret = "true"
        THEN [outcome |-> "return", chain |-> new_chain, calls |-> calls]
        ELSE [outcome |-> "return", chain |-> local_chain, calls |-> calls]

\* choose_chain answering a tie between two valid chains with both chains
\* joined.
choose_chain_merges_on_tie(overflow_checks, local_chain, new_chain) ==
    LET is_local_valid == check_chain_is_valid(overflow_checks, local_chain)
        is_new_valid == check_chain_is_valid(overflow_checks, new_chain)
        calls == is_local_valid.calls \o is_new_valid.calls
    IN  IF is_local_valid.ret = "panic" \/ is_new_valid.ret = "panic"
        THEN [outcome |-> "panic", chain |-> <<>>, calls |-> calls]
        ELSE IF is_local_valid.ret = "true" /\ is_new_valid.ret = "true"
        THEN [outcome |-> "return",
              chain |-> IF Len(new_chain) = Len(local_chain)
                        THEN local_chain \o new_chain
                        ELSE IF Len(new_chain) < Len(local_chain)
                        THEN local_chain ELSE new_chain,
              calls |-> calls]
        ELSE IF is_local_valid.ret = "true"
        THEN [outcome |-> "return", chain |-> local_chain, calls |-> calls]
        ELSE IF is_new_valid.ret = "true"
        THEN [outcome |-> "return", chain |-> new_chain, calls |-> calls]
        ELSE [outcome |-> "panic", chain |-> <<>>, calls |-> calls]

choose_chain(overflow_checks, local_chain, new_chain) ==
    LET is_local_valid == check_chain_is_valid(overflow_checks, local_chain)
        is_new_valid == check_chain_is_valid(overflow_checks, new_chain)
    IN  IF is_local_valid.ret = "panic"
        THEN [outcome |-> "panic", chain |-> <<>>, calls |-> is_local_valid.calls]
        ELSE IF is_new_valid.ret = "panic"
        THEN [outcome |-> "panic", chain |-> <<>>,
              calls |-> is_local_valid.calls \o is_new_valid.calls]
        ELSE LET calls == is_local_valid.calls \o is_new_valid.calls
             IN  IF is_local_valid.ret = "true" /\ is_new_valid.ret = "true"
                 THEN IF Len(new_chain) <= Len(local_chain)
                      THEN [outcome |-> "return", chain |-> local_chain, calls |-> calls]
                      ELSE [outcome |-> "return", chain |-> new_chain, calls |-> calls]
                 ELSE IF is_local_valid.ret = "true" /\ is_new_valid.ret # "true"
                 THEN [outcome |-> "return", chain |-> local_chain, calls |-> calls]
                 ELSE IF is_local_valid.ret # "true" /\ is_new_valid.ret = "true"
                 THEN [outcome |-> "return", chain |-> new_chain, calls |-> calls]
                 ELSE [outcome |-> "panic", chain |-> <<>>, calls |-> calls]

\* ---------------------------------------------------------------- miner
\* result[0..DIFFICULTY.len()].into_iter().map(|n| n.to_string()).collect()
digest_prefix_string(result) ==
    collect_string([i \in 1..Len(DIFFICULTY) |-> u8_to_string(result[i])])

\* if r == DIFFICULTY
miner_accepts(result) == digest_prefix_string(result) = DIFFICULTY

\* Block::new after mine_block has returned (nonce, header).
Block_new(id, timestamp, prev_hash, transactions, nonce, header) ==
    Block(id, timestamp, header, prev_hash, transactions, nonce)

\* -------------------------------------------------------------- ledger
\* add_block_to_chain with the push outside the if: a rejected block is
\* reported and appended all the same.
add_block_to_chain_pushes_rejected(overflow_checks, chain, block) ==
    IF chain = <<>>
    THEN [outcome |-> "panic", blocks |-> chain, valid |-> "panic",
          log |-> "called Option::unwrap() on a None value"]
    ELSE LET v == check_block_is_valid(overflow_checks, chain[Len(chain)], block)
         IN  IF v.ret = "panic"
             THEN [outcome |-> "panic", blocks |-> chain, valid |-> "panic", log |-> v.log]
             ELSE [outcome |-> "return", blocks |-> Append(chain, block),
                   valid |-> v.ret,
                   log |-> IF v.ret = "true" THEN "" ELSE "Received invalid block"]

\* add_block_to_chain with a rejection that removes the latest block.
add_block_to_chain_drops_latest(overflow_checks, chain, block) ==
    IF chain = <<>>
    THEN [outcome |-> "panic", blocks |-> chain, valid |-> "panic",
          log |-> "called Option::unwrap() on a None value"]
    ELSE LET v == check_block_is_valid(overflow_checks, chain[Len(chain)], block)
         IN  IF v.ret = "panic"
             THEN [outcome |-> "panic", blocks |-> chain, valid |-> "panic", log |-> v.log]
             ELSE IF v.ret = "true"
             THEN [outcome |-> "return", blocks |-> Append(chain, block),
                   valid |-> "true", log |-> ""]
             ELSE [outcome |-> "return", blocks |-> SubSeq(chain, 1, Len(chain) - 1),
                   valid |-> "false", log |-> "Received invalid block"]

\* add_block_to_chain as a function of the chain and the block.
add_block_to_chain(overflow_checks, chain, block) ==
    IF chain = <<>>
    THEN [outcome |-> "panic", blocks |-> chain, valid |-> "panic",
          log |-> "called Option::unwrap() on a None value"]
    ELSE LET latest_block == chain[Len(chain)]
             v == check_block_is_valid(overflow_checks, latest_block, block)
         IN  IF v.ret = "panic"
             THEN [outcome |-> "panic", blocks |-> chain, valid |-> "panic", log |-> v.log]
             ELSE IF v.ret = "true"
             THEN [outcome |-> "return", blocks |-> Append(chain, block),
                   valid |-> "true", log |-> ""]
             ELSE [outcome |-> "return", blocks |-> chain, valid |-> "false",
                   log |-> "Received invalid block"]

\* --------------------------------------------------------------- state
VARIABLES
    blocks,           \* App.blocks, the ledger's chain
    overflow_checks,  \* whether the build aborts on integer overflow
    now,              \* Utc::now().timestamp(), in seconds
    candidate,        \* the block the caller holds: <<>> or <<block>>
    peer,             \* a chain the caller holds beside the ledger's
    miner,            \* position of the mine_block loop
    ret,              \* the last operation, its arguments and its result
    halted            \* "running", or "panicked" once the process aborted

vars == <<blocks, overflow_checks, now, candidate, peer, miner, ret, halted>>

Idle == [pc |-> "idle"]

Ready == halted = "running" /\ miner = Idle

\* App::new(), in either build profile.
Init ==
    /\ blocks = <<>>
    /\ overflow_checks \in BOOLEAN
    /\ now = 1
    /\ candidate = <<>>
    /\ peer = <<>>
    /\ miner = Idle
    /\ ret = [op |-> "App::new"]
    /\ halted = "running"

\* The wall clock advances between two calls of Block::new, the only reader
\* of the clock.
Tick ==
    /\ Ready
    /\ candidate = <<>>
    /\ now < MaxTime
    /\ now' = now + 1
    /\ UNCHANGED <<blocks, overflow_checks, candidate, peer, miner, ret, halted>>

AddGenesisBlock ==
    /\ Ready
    /\ Len(blocks) < MaxChain
    /\ blocks' = Append(blocks, genesis_block)
    /\ ret' = [op |-> "add_genesis_block"]
    /\ UNCHANGED <<overflow_checks, now, candidate, peer, miner, halted>>

AddBlockToChain ==
    /\ Ready
    /\ candidate # <<>>
    /\ LET r == add_block_to_chain(overflow_checks, blocks, candidate[1])
       IN  /\ blocks' = r.blocks
           /\ halted' = IF r.outcome = "panic" THEN "panicked" ELSE "running"
           /\ ret' = [op |-> "add_block_to_chain", block |-> candidate[1],
                      before |-> blocks, outcome |-> r.outcome,
                      valid |-> r.valid, log |-> r.log]
    /\ candidate' = <<>>
    /\ UNCHANGED <<overflow_checks, now, peer, miner>>

\* The blocks a new block can be built on: the last block of either chain.
Tips ==
    (IF blocks = <<>> THEN {} ELSE {blocks[Len(blocks)]})
        \cup (IF peer = <<>> THEN {} ELSE {peer[Len(peer)]})

\* The transaction lists Block::new is given.
TxChoices == {<<>>, <<Transaction>>}

\* Block::new(id, prev_hash, transactions) is entered: the timestamp is read
\* and mine_block starts with nonce = 0.
BlockNewCall ==
    /\ Ready
    /\ \E pred \in Tips, transactions \in TxChoices :
          /\ pred.id < U32_MAX
          /\ miner' = [pc |-> "loop", id |-> pred.id + 1, timestamp |-> now,
                       prev_hash |-> pred.header, transactions |-> transactions,
                       nonce |-> 0]
    /\ candidate' = <<>>
    /\ ret' = [op |-> "Block::new", phase |-> "mining"]
    /\ UNCHANGED <<blocks, overflow_checks, now, peer, halted>>

\* One iteration of the loop of mine_block; the accepting iteration returns
\* to Block::new, which returns the block.
MineStep ==
    /\ halted = "running"
    /\ miner.pc = "loop"
    /\ IF overflow_checks /\ miner.nonce = U64_MAX
       THEN /\ halted' = "panicked"
            /\ ret' = [op |-> "Block::new", phase |-> "panic"]
            /\ UNCHANGED <<miner, candidate>>
       ELSE LET nonce == (miner.nonce + 1) % (U64_MAX + 1)
                result == calculate_hash(miner.id, miner.timestamp, miner.prev_hash,
                                         miner.transactions, nonce)
            IN  IF miner_accepts(result)
                THEN /\ candidate' = <<Block_new(miner.id, miner.timestamp,
                                                 miner.prev_hash, miner.transactions,
                                                 nonce, hex_encode(result))>>
                     /\ miner' = Idle
                     /\ ret' = [op |-> "Block::new", phase |-> "return"]
                     /\ UNCHANGED halted
                ELSE /\ miner' = [miner EXCEPT !.nonce = nonce]
                     /\ UNCHANGED <<candidate, ret, halted>>
    /\ UNCHANGED <<blocks, overflow_checks, now, peer>>

\* A string with its last character replaced.
Flipped(s) ==
    IF s = <<>> THEN <<"f">>
    ELSE [s EXCEPT ![Len(s)] = IF s[Len(s)] = "f" THEN "0" ELSE "f"]

\* The copies of b that differ from it in the named field (all fields of
\* Block are public and a Block can be deserialised from any input).
TamperedCopies(b, field) ==
    CASE field = "id" ->
            {[b EXCEPT !.id = v] : v \in (0..U32_MAX) \ {b.id}}
      [] field = "timestamp" ->
            {[b EXCEPT !.timestamp = v] : v \in (0..MaxTime) \ {b.timestamp}}
      [] field = "header" ->
            {[b EXCEPT !.header = v] : v \in {<<>>, GenesisString, Flipped(b.header)} \ {b.header}}
      [] field = "prev_hash" ->
            {[b EXCEPT !.prev_hash = v] : v \in {GenesisString, Flipped(b.prev_hash)} \ {b.prev_hash}}
      [] field = "transactions" ->
            {[b EXCEPT !.transactions = v] :
                v \in ({Append(b.transactions, Transaction)} \cup
                       (IF b.transactions = <<>> THEN {} ELSE {Tail(b.transactions)}))}
      [] field = "nonce" ->
            {[b EXCEPT !.nonce = v] : v \in ({b.nonce - 1, b.nonce + 1} \cap (0..U64_MAX))}

Fields == {"id", "timestamp", "header", "prev_hash", "transactions", "nonce"}

\* The caller changes one field of the block Block::new just returned.
Tamper ==
    /\ Ready
    /\ candidate # <<>>
    /\ ret = [op |-> "Block::new", phase |-> "return"]
    /\ \E field \in Fields :
          \E b \in TamperedCopies(candidate[1], field) :
              /\ candidate' = <<b>>
              /\ ret' = [op |-> "tamper", field |-> field, original |-> candidate[1]]
    /\ UNCHANGED <<blocks, overflow_checks, now, peer, miner, halted>>

\* The caller recomputes the header of a changed block with calculate_hash
\* (a public function), without mining.
Rehash ==
    /\ Ready
    /\ candidate # <<>>
    /\ ret.op = "tamper"
    /\ ret.field # "header"
    /\ candidate' = <<[candidate[1] EXCEPT !.header = HeaderOf(candidate[1])]>>
    /\ ret' = [op |-> "rehash", field |-> ret.field, original |-> ret.original]
    /\ UNCHANGED <<blocks, overflow_checks, now, peer, miner, halted>>

\* The caller starts a second chain with the genesis block.
PeerPushGenesis ==
    /\ Ready
    /\ peer = <<>>
    /\ peer' = <<genesis_block>>
    /\ UNCHANGED <<blocks, overflow_checks, now, candidate, miner, ret, halted>>

\* The caller pushes the block Block::new just returned onto its chain.
PeerPush ==
    /\ Ready
    /\ candidate # <<>>
    /\ ret = [op |-> "Block::new", phase |-> "return"]
    /\ peer # <<>>
    /\ Len(peer) < MaxPeer
    /\ peer' = Append(peer, candidate[1])
    /\ candidate' = <<>>
    /\ UNCHANGED <<blocks, overflow_checks, now, miner, ret, halted>>

\* The chains the caller can hand to choose_chain as new_chain.
ChainChoices ==
    {blocks, peer} \cup
    (IF candidate = <<>> THEN {}
     ELSE {Append(blocks, candidate[1]), Append(peer, candidate[1])})

\* choose_chain takes both chains by value: the caller passes a clone of the
\* ledger's chain or its own chain as local_chain, and gives up its chain and
\* its block.
ChooseChain ==
    /\ Ready
    /\ \E local_chain \in {blocks, peer}, new_chain \in ChainChoices :
          LET r == choose_chain(overflow_checks, local_chain, new_chain)
          IN  /\ halted' = IF r.outcome = "panic" THEN "panicked" ELSE "running"
              /\ ret' = [op |-> "choose_chain", local_chain |-> local_chain,
                         new_chain |-> new_chain, before |-> blocks,
                         outcome |-> r.outcome, chain |-> r.chain, calls |-> r.calls]
    /\ candidate' = <<>>
    /\ peer' = <<>>
    /\ UNCHANGED <<blocks, overflow_checks, now, miner>>

Next ==
    \/ Tick
    \/ AddGenesisBlock
    \/ AddBlockToChain
    \/ BlockNewCall
    \/ MineStep
    \/ Tamper
    \/ Rehash
    \/ PeerPushGenesis
    \/ PeerPush
    \/ ChooseChain

Spec == Init /\ [][Next]_vars

\* ------------------------------------------------------------------------
\* Vocabulary of the properties
\* ------------------------------------------------------------------------
Last(chain) == chain[Len(chain)]

\* Every block the state holds.
KnownBlocks ==
    {blocks[i] : i \in 1..Len(blocks)} \cup {peer[i] : i \in 1..Len(peer)}
        \cup {candidate[i] : i \in 1..Len(candidate)}

\* The difficulty predicate as specified: the first K characters of the
\* hex-encoded digest equal the K-character target.
HexPrefixMatches(header) ==
    /\ Len(header) >= Len(DIFFICULTY)
    /\ SubSeq(header, 1, Len(DIFFICULTY)) = DIFFICULTY

\* The five rules of the block validator as specified.
FiveRules(predecessor, cand) ==
    /\ cand.id = predecessor.id + 1
    /\ cand.timestamp > predecessor.timestamp
    /\ cand.header = HeaderOf(cand)
    /\ cand.prev_hash = predecessor.header
    /\ HexPrefixMatches(cand.header)

\* The chain-validity rule as specified: every adjacent pair passes, the
\* earlier block being the predecessor.
RuleChainValid(chain) ==
    \A i \in 2..Len(chain) : FiveRules(chain[i - 1], chain[i])

\* The same rule with the validator of the source deciding each pair.
PairwiseAccepted(chain) ==
    \A i \in 2..Len(chain) :
        check_block_is_valid(overflow_checks, chain[i - 1], chain[i]).ret = "true"

\* cand is what Block::new(predecessor.id + 1, predecessor.header, txs)
\* returns at a reading of the clock after predecessor's timestamp.
MinedOn(predecessor, cand) ==
    /\ cand.id = predecessor.id + 1
    /\ cand.prev_hash = predecessor.header
    /\ cand.timestamp > predecessor.timestamp
    /\ cand.nonce >= 1
    /\ miner_accepts(calculate_hash(cand.id, cand.timestamp, cand.prev_hash,
                                    cand.transactions, cand.nonce))
    /\ \A n \in 1..(cand.nonce - 1) :
          ~miner_accepts(calculate_hash(cand.id, cand.timestamp, cand.prev_hash,
                                        cand.transactions, n))
    /\ cand.header = HeaderOf(cand)

BlockNewReturned == ret = [op |-> "Block::new", phase |-> "return"]

\* ------------------------------------------------------------------------
\* C1: the validator accepts every block that the mined-block path built on
\* a predecessor (id = predecessor.id + 1, prev_hash = predecessor.header,
\* later timestamp).
C1_MinedBlockAccepted ==
    \A predecessor \in KnownBlocks, cand \in KnownBlocks :
        MinedOn(predecessor, cand) =>
            check_block_is_valid(overflow_checks, predecessor, cand).ret = "true"

\* C2: appending a validly mined successor to a valid non-empty ledger chain
\* makes it the new last block, the length grows by one and the resulting
\* chain passes check_chain_is_valid.
C2_MinedBlockAppended ==
    (/\ ret.op = "add_block_to_chain"
     /\ ret.before # <<>>
     /\ RuleChainValid(ret.before)
     /\ MinedOn(Last(ret.before), ret.block))
        => /\ blocks = Append(ret.before, ret.block)
           /\ Len(blocks) = Len(ret.before) + 1
           /\ check_chain_is_valid(overflow_checks, blocks).ret = "true"

\* C3: a candidate that the validator does not accept against the last block
\* of a non-empty ledger chain leaves the chain exactly as it was, the call
\* returns normally and the ledger keeps running on the same last block.
C3_RejectedLeavesChain ==
    (/\ ret.op = "add_block_to_chain"
     /\ ret.before # <<>>
     /\ (ret.valid # "true" \/ ~FiveRules(Last(ret.before), ret.block)))
        => /\ blocks = ret.before
           /\ Last(blocks) = Last(ret.before)
           /\ ret.outcome = "return"
           /\ halted = "running"

\* C3 witness: a copy of a mined block with id = 2 was offered to a ledger
\* holding genesis and was rejected.
C3_Witness ==
    /\ ret.op = "add_block_to_chain"
    /\ ret.before # <<>>
    /\ ret.block.id = 2
    /\ ret.block.header = HeaderOf([ret.block EXCEPT !.id = 1])
    /\ ret.valid = "false"
    /\ blocks = ret.before

\* C4: the validator returns true exactly when the five rules hold and false
\* in every other case.
C4_ExactlyFiveRules ==
    \A predecessor \in KnownBlocks, cand \in KnownBlocks :
        LET r == check_block_is_valid(overflow_checks, predecessor, cand).ret
        IN  /\ (r = "true") <=> FiveRules(predecessor, cand)
            /\ ~FiveRules(predecessor, cand) => r = "false"

\* C5: check_chain_is_valid is true iff the validator accepts every adjacent
\* pair with chain[i-1] as predecessor and chain[i] as candidate; the k-th
\* call it makes has chain[k-1] as predecessor and chain[k] as candidate, so
\* the block at index 0 is never the candidate.
C5_ChainValidIffPairs ==
    \A chain \in ChainChoices :
        LET r == check_chain_is_valid(overflow_checks, chain)
        IN  /\ (r.ret = "true") <=> PairwiseAccepted(chain)
            /\ \A k \in 1..Len(r.calls) :
                  /\ r.calls[k].latest_block = chain[k]
                  /\ r.calls[k].new_block = chain[k + 1]

\* C6: of two valid chains choose_chain returns the new one when it is
\* strictly longer and the local one otherwise.
C6_LongerValidChain ==
    (/\ ret.op = "choose_chain"
     /\ RuleChainValid(ret.local_chain)
     /\ RuleChainValid(ret.new_chain))
        => /\ ret.outcome = "return"
           /\ ret.chain = IF Len(ret.new_chain) > Len(ret.local_chain)
                          THEN ret.new_chain ELSE ret.local_chain

\* C7: when exactly one of the two chains is valid, choose_chain returns it.
C7_OnlyValidChain ==
    (/\ ret.op = "choose_chain"
     /\ RuleChainValid(ret.local_chain) # RuleChainValid(ret.new_chain))
        => /\ ret.outcome = "return"
           /\ ret.chain = IF RuleChainValid(ret.local_chain)
                          THEN ret.local_chain ELSE ret.new_chain

\* C8: a chain that choose_chain returns is valid (every adjacent pair
\* passes, the earlier block being the predecessor), and when neither input
\* is valid it returns nothing and the process stops.
C8_NeverReturnsInvalid ==
    ret.op = "choose_chain" =>
        /\ ret.outcome = "return" =>
              /\ RuleChainValid(ret.chain)
              /\ PairwiseAccepted(ret.chain)
              /\ halted = "running"
        /\ (~RuleChainValid(ret.local_chain) /\ ~RuleChainValid(ret.new_chain)) =>
              /\ ret.outcome = "panic"
              /\ halted = "panicked"
        /\ (~PairwiseAccepted(ret.local_chain) /\ ~PairwiseAccepted(ret.new_chain)) =>
              /\ ret.outcome = "panic"
              /\ halted = "panicked"

\* C8 witness: choose_chain was given two chains of which neither is valid,
\* one of them with a changed header, and stopped the process.
C8_Witness ==
    /\ ret.op = "choose_chain"
    /\ ~RuleChainValid(ret.local_chain)
    /\ ~RuleChainValid(ret.new_chain)
    /\ Len(ret.new_chain) = 3
    /\ Last(ret.new_chain).header # HeaderOf(Last(ret.new_chain))
    /\ ret.outcome = "panic"
    /\ halted = "panicked"

\* C8 second case reached: choose_chain returned the only valid chain when
\* the other had three blocks.
C8_ReturnCase ==
    /\ ret.op = "choose_chain"
    /\ ret.outcome = "return"
    /\ ret.chain = <<genesis_block>>
    /\ Len(ret.new_chain) = 3
    /\ ~RuleChainValid(ret.new_chain)

\* C9: the block Block::new returns carries the smallest nonce >= 1 whose
\* hex-encoded digest starts with the K-character target, and the hex
\* encoding of that digest as header.
C9_SmallestNonce ==
    (BlockNewReturned /\ candidate # <<>>) =>
        LET b == candidate[1]
            Satisfies(n) ==
                HexPrefixMatches(hex_encode(
                    calculate_hash(b.id, b.timestamp, b.prev_hash, b.transactions, n)))
        IN  /\ b.nonce >= 1
            /\ Satisfies(b.nonce)
            /\ \A n \in 1..(b.nonce - 1) : ~Satisfies(n)
            /\ b.header = HeaderOf(b)

\* C10: the stopping condition of mine_block accepts a digest iff rule 5 of
\* the validator accepts its hex encoding.
C10_SameDifficultyPredicate ==
    miner.pc = "loop" =>
        \A n \in 0..U64_MAX :
            LET d == calculate_hash(miner.id, miner.timestamp, miner.prev_hash,
                                    miner.transactions, n)
            IN  miner_accepts(d) <=>
                    (slice_in_range(hex_encode(d)) /\ header_meets_difficulty(hex_encode(d)))

\* ------------------------------------------------------------------------
\* The diagnostics of the rules that compare a block's content: id,
\* timestamp and header.
ContentDiagnostics ==
    {"Invalid block ID!", "Invalid block timestamp!", "Invalid block header!"}

\* C11: a copy of a validly mined block with exactly one of id, timestamp,
\* prev_hash, transactions, nonce changed and the header kept is rejected
\* against the same predecessor, as a mismatch of its content (where the
\* changed content does not hash to the kept header).
C11_SingleFieldChangeRejected ==
    (/\ ret.op = "tamper"
     /\ ret.field # "header"
     /\ HeaderOf(candidate[1]) # candidate[1].header)
        => \A predecessor \in KnownBlocks :
              MinedOn(predecessor, ret.original) =>
                  LET v == check_block_is_valid(overflow_checks, predecessor, candidate[1])
                  IN  /\ v.ret = "false"
                      /\ v.log \in ContentDiagnostics

\* C11 witness: the nonce of a block mined on its predecessor was changed
\* and the validator rejected the copy for its header.
C11_Witness ==
    /\ ret.op = "tamper"
    /\ ret.field = "nonce"
    /\ candidate[1].header = ret.original.header
    /\ \E predecessor \in KnownBlocks :
          /\ MinedOn(predecessor, ret.original)
          /\ check_block_is_valid(overflow_checks, predecessor, candidate[1])
                = [ret |-> "false", log |-> "Invalid block header!"]

\* C12: whenever the ledger's chain is non-empty, its first block is the
\* genesis block and every later block carries the header of the block
\* before it as prev_hash and an id greater by exactly one.
C12_ChainLinked ==
    blocks # <<>> =>
        /\ blocks[1] = genesis_block
        /\ \A i \in 2..Len(blocks) :
              /\ blocks[i].prev_hash = blocks[i - 1].header
              /\ blocks[i].id = blocks[i - 1].id + 1

\* C13: every block of the ledger's chain after the first has a header equal
\* to the hex digest of its own content, and that header starts with the
\* difficulty target.
C13_StoredBlocksMined ==
    \A i \in 2..Len(blocks) :
        /\ blocks[i].header = HeaderOf(blocks[i])
        /\ HexPrefixMatches(blocks[i].header)

\* The genesis block, field by field, as the claim gives it.
FixedGenesis ==
    [id |-> 0, timestamp |-> 0, header |-> GenesisString,
     prev_hash |-> GenesisString, transactions |-> <<>>, nonce |-> 0]

\* C14 as stated: a ledger that was just created holds the genesis block and
\* nothing else.
C14_NewLedgerHoldsGenesis ==
    ret = [op |-> "App::new"] => blocks = <<FixedGenesis>>

\* C14 as amended: a ledger created by App::new() is empty; after its first
\* add_genesis_block() the chain holds the fixed genesis block and nothing
\* else, and an append request on that chain is validated against genesis.
C14_GenesisAfterInitialisation ==
    /\ ret = [op |-> "App::new"] => blocks = <<>>
    /\ (ret.op = "add_genesis_block" /\ Len(blocks) = 1) => blocks = <<FixedGenesis>>
    /\ (ret.op = "add_block_to_chain" /\ Len(ret.before) = 1) =>
          /\ ret.before = <<FixedGenesis>>
          /\ ret.outcome = "return"
          /\ ret.valid = check_block_is_valid(overflow_checks, FixedGenesis, ret.block).ret

\* C14 witness: the first append request after initialisation was decided
\* against genesis.
C14_Witness ==
    /\ ret.op = "add_block_to_chain"
    /\ ret.before = <<FixedGenesis>>
    /\ ret.block.prev_hash = FixedGenesis.header
    /\ ret.block.id = 1
    /\ ret.outcome = "return"

IsPrefix(s, t) == Len(s) <= Len(t) /\ SubSeq(t, 1, Len(s)) = s

\* C15: every step leaves the ledger's chain as a prefix of the new chain
\* and lengthens it by at most one block.
C15_AppendOnly ==
    [][IsPrefix(blocks, blocks') /\ Len(blocks') <= Len(blocks) + 1]_vars

\* C15 witness: a block was appended behind an existing one.
C15_Witness ==
    /\ ret.op = "add_genesis_block"
    /\ Len(blocks) = 2

\* C15 witness for the rejecting call: add_block_to_chain acted on a chain of
\* two blocks and left both.
C15_RejectCase ==
    /\ ret.op = "add_block_to_chain"
    /\ Len(ret.before) = 2
    /\ blocks = ret.before

\* C16: choose_chain leaves the ledger's chain as it was and what it returns
\* is one of its two arguments, block for block.
C16_ChooseChainPure ==
    ret.op = "choose_chain" =>
        /\ blocks = ret.before
        /\ ret.outcome = "return" => ret.chain \in {ret.local_chain, ret.new_chain}

\* C16 witness: choose_chain returned the longer new chain while the ledger
\* held another chain.
C16_Witness ==
    /\ ret.op = "choose_chain"
    /\ ret.outcome = "return"
    /\ ret.chain = ret.new_chain
    /\ ret.new_chain # ret.local_chain
    /\ blocks # ret.chain
    /\ blocks = ret.before

\* C17: mine_block never stops with an error, whatever the input and also
\* when the nonce counter stands at its largest value.
C17_MinerNeverErrors ==
    ret # [op |-> "Block::new", phase |-> "panic"]

\* cand is what Block::new(predecessor.id + 1, predecessor.header, txs)
\* returns at a reading of the clock not before predecessor's timestamp.
BuiltOn(predecessor, cand) ==
    /\ cand.id = predecessor.id + 1
    /\ cand.prev_hash = predecessor.header
    /\ cand.timestamp >= predecessor.timestamp
    /\ cand.nonce >= 1
    /\ miner_accepts(calculate_hash(cand.id, cand.timestamp, cand.prev_hash,
                                    cand.transactions, cand.nonce))
    /\ \A n \in 1..(cand.nonce - 1) :
          ~miner_accepts(calculate_hash(cand.id, cand.timestamp, cand.prev_hash,
                                        cand.transactions, n))
    /\ cand.header = HeaderOf(cand)

\* C18: a block built by Block::new on the ledger's last block, at a clock
\* reading not before that block's timestamp, is accepted and appended.
C18_BuiltBlocksAccepted ==
    (/\ ret.op = "add_block_to_chain"
     /\ ret.before # <<>>
     /\ BuiltOn(Last(ret.before), ret.block))
        => /\ ret.valid = "true"
           /\ blocks = Append(ret.before, ret.block)

\* C19: the validator never aborts on the id rule, and a candidate gets past
\* the id rule only when its id is the predecessor's id plus one as integers.
C19_IdRuleExact ==
    \A predecessor \in KnownBlocks, cand \in KnownBlocks :
        LET v == check_block_is_valid(overflow_checks, predecessor, cand)
        IN  /\ v.log # "attempt to add with overflow"
            /\ (v.ret = "true" \/ (v.ret = "false" /\ v.log # "Invalid block ID!"))
                  => cand.id = predecessor.id + 1

\* The number of characters of a hex-encoded digest.
HexDigestLen == Len(HeaderOf(genesis_block))

\* The difficulty comparison of the validator is reached for this pair.
ReachesDifficultyRule(predecessor, cand) ==
    check_block_is_valid(overflow_checks, predecessor, cand).log
        \in {"byte index out of range", "Difficulty does not match!", ""}

\* C20: for every pair of blocks the validator takes no out-of-range slice,
\* reaches the difficulty comparison only with a header of full digest
\* length, and ends by returning a boolean.
C20_AlwaysReturnsBoolean ==
    \A predecessor \in KnownBlocks, cand \in KnownBlocks :
        LET v == check_block_is_valid(overflow_checks, predecessor, cand)
        IN  /\ v.log # "byte index out of range"
            /\ ReachesDifficultyRule(predecessor, cand) => Len(cand.header) = HexDigestLen
            /\ v.ret \in {"true", "false"}

\* The part of C20 about the slice alone: no out-of-range slice, and the
\* difficulty comparison only on headers of full digest length.
C20_SliceInRange ==
    \A predecessor \in KnownBlocks, cand \in KnownBlocks :
        /\ check_block_is_valid(overflow_checks, predecessor, cand).log
              # "byte index out of range"
        /\ ReachesDifficultyRule(predecessor, cand) => Len(cand.header) = HexDigestLen

\* A block with an empty header was put to the validator.
C20_ShortHeaderCase ==
    \E predecessor \in KnownBlocks, cand \in KnownBlocks :
        /\ cand.header = <<>>
        /\ cand.id = predecessor.id + 1
        /\ cand.timestamp > predecessor.timestamp
        /\ check_block_is_valid(overflow_checks, predecessor, cand)
              = [ret |-> "false", log |-> "Invalid block header!"]

====
